---- MODULE Spec2Model ----
(***************************************************************************)
(* Planning engine of the national-parks trip planner (docs/js/app.js):    *)
(* stop-order optimizer, leg builder, day-plan packer and the asynchronous *)
(* route update that drives them.                                          *)
(*                                                                         *)
(* Units.  Coordinates are <<lon, lat>> in whole degrees.  Distances are   *)
(* hundredths of a mile, bearings tenths of a degree, durations minutes.   *)
(***************************************************************************)
EXTENDS Integers, Sequences, FiniteSets, TLC

VARIABLES
    selectedParks,          \* let selectedParks = []   (stop records, in visiting order)
    originPoint,            \* let originPoint = null   (coordinates or NoOrigin)
    optimizeToggle,         \* optimizeToggle.checked
    roundTripToggle,        \* roundTripToggle.checked
    tripRules,              \* const tripRules = {...}
    currentLegs,            \* let currentLegs = []
    dayPlan,                \* let dayPlan = []
    droppedOptional,        \* droppedOptional returned by the last generateDayPlan()
    violations,             \* issues shown by the last renderViolations(computeViolations(...))
    orderResult,            \* value returned by the last computeStopOrder()
    phase,                  \* position of the synchronous pipeline under study
    routeGeometry,          \* data of the "route" map source
    routeRequestController, \* let routeRequestController = null (0 = null, k = controller of invocation k)
    isRouting,              \* body.classList contains "is-routing"
    routeUpdateTimer,       \* let routeUpdateTimer = null (TRUE while the debounce timer is armed)
    inv,                    \* the updateRoute() invocations and where each one is suspended
    parksJson,              \* docs/data/parks.json: the park list build_drive_matrix reads
    driveMatrixJson,        \* docs/data/drive_matrix.json: the file build_drive_matrix rewrites
    build                   \* the running build_drive_matrix main() and the builds finished

vars == <<selectedParks, originPoint, optimizeToggle, roundTripToggle, tripRules,
          currentLegs, dayPlan, droppedOptional, violations, orderResult, phase,
          routeGeometry, routeRequestController, isRouting, routeUpdateTimer, inv,
          parksJson, driveMatrixJson, build>>

(***************************************************************************)
(* Bounds of the model.                                                    *)
(***************************************************************************)
MaxStops == 4
NumParks == 2
MaxInvocations == 3

NoOrigin == <<>>
Null == [id |-> 0]
Infinity == 1000000000
OriginId == 99
MaxWaypoints == 25

\* Park codes of parks.json, versions of a park's record, and builds run.
MaxParkCodes == 3
MaxRevs == 2
MaxBuilds == 2

StopCoords == {<<0, 0>>, <<1, 0>>, <<2, 0>>, <<1, 1>>}
OriginCoords == {<<-1, 0>>, <<1, 1>>}

Abs(x) == IF x < 0 THEN -x ELSE x

(***************************************************************************)
(* GEOMETRY                                                                *)
(***************************************************************************)

\* turf.distance (haversine, miles) tabulated on the degree grid
\* lon in -1..2, lat in 0..1, in hundredths of a mile.
milesBetween(a, b) ==
    LET d == Abs(b[1] - a[1]) + 1 IN
    IF a[2] = 0 /\ b[2] = 0 THEN <<0, 6909, 13819, 20728>>[d]
    ELSE IF a[2] = 1 /\ b[2] = 1 THEN <<0, 6908, 13817, 20725>>[d]
    ELSE <<6909, 9771, 15449, 21848>>[d]

\* Compass bearing from a to b on the same grid, in tenths of a degree.
bearingBetween(a, b) ==
    LET d == (b[1] - a[1]) + 4 IN
    IF a[2] = b[2] THEN <<2700, 2700, 2700, 0, 900, 900, 900>>[d]
    ELSE IF a[2] < b[2] THEN <<2884, 2966, 3150, 0, 450, 634, 716>>[d]
    ELSE <<2516, 2434, 2250, 1800, 1350, 1166, 1084>>[d]

\* Angular difference between two bearings, 0..1800 tenths of a degree.
bearingDiff(b1, b2) ==
    LET d == Abs(b1 - b2) % 3600 IN
    IF d > 1800 THEN 3600 - d ELSE d

(***************************************************************************)
(* OPTIMIZATION  (computeStopOrder)                                        *)
(***************************************************************************)

IsLockedInverted(p) == ~p.locked
IsLocked(p) == p.locked

unlockedOf(parks) == SelectSeq(parks, LAMBDA p : ~IsLocked(p))

minForOptimizeNoOriginTwo(origin) == 2
minForOptimize(origin) == IF origin # NoOrigin THEN 2 ELSE 3

candScoreFromSeed(route, seedCoords, cand, noBacktracking) ==
    milesBetween(seedCoords, cand.coords) * 1800

\* Candidate score, scaled by 1800 so that the penalty (diff/180)*score stays integral.
candScore(route, seedCoords, cand, noBacktracking) ==
    LET n          == Len(route)
        lastCoords == IF n >= 1 THEN route[n].coords ELSE seedCoords
        score      == milesBetween(lastCoords, cand.coords)
    IN  IF noBacktracking /\ n >= 2 /\ score > 0
        THEN LET prevBearing == bearingBetween(route[n - 1].coords, lastCoords)
                 legBearing  == bearingBetween(lastCoords, cand.coords)
                 diff        == bearingDiff(prevBearing, legBearing)
             IN  score * 1800 + diff * score
        ELSE score * 1800

RECURSIVE pickBestLastTie(_, _, _, _, _, _, _)
pickBestLastTie(route, seedCoords, remaining, k, best, bestScore, noBacktracking) ==
    IF k > Len(remaining) THEN best
    ELSE LET score == candScore(route, seedCoords, remaining[k], noBacktracking) IN
         IF score <= bestScore
         THEN pickBestLastTie(route, seedCoords, remaining, k + 1, remaining[k], score,
                              noBacktracking)
         ELSE pickBestLastTie(route, seedCoords, remaining, k + 1, best, bestScore,
                              noBacktracking)

\* for (const id of remaining) { ... if (score < bestScore) ... }
RECURSIVE pickBest(_, _, _, _, _, _, _)
pickBest(route, seedCoords, remaining, k, best, bestScore, noBacktracking) ==
    IF k > Len(remaining) THEN best
    ELSE LET score == candScore(route, seedCoords, remaining[k], noBacktracking) IN
         IF score < bestScore
         THEN pickBest(route, seedCoords, remaining, k + 1, remaining[k], score, noBacktracking)
         ELSE pickBest(route, seedCoords, remaining, k + 1, best, bestScore, noBacktracking)

\* while (remaining.size) { ...; route.push(best); remaining.delete(best.id); }
RECURSIVE greedyLoop(_, _, _, _)
greedyLoop(route, seedCoords, remaining, noBacktracking) ==
    IF Len(remaining) = 0 THEN route
    ELSE LET best == pickBest(route, seedCoords, remaining, 1, Null, Infinity, noBacktracking) IN
         greedyLoop(Append(route, best), seedCoords,
                    SelectSeq(remaining, LAMBDA p : p.id # best.id), noBacktracking)

rebuiltNoAdvance(parks, route) ==
    [i \in 1..Len(parks) |->
        IF IsLocked(parks[i]) THEN parks[i]
        ELSE IF 1 <= Len(route) THEN route[1] ELSE Null]

\* Reinsert locked stops into original indices; the gaps take route[0], route[1], ...
rebuilt(parks, route) ==
    [i \in 1..Len(parks) |->
        IF IsLocked(parks[i]) THEN parks[i]
        ELSE LET r == Cardinality({j \in 1..i : ~IsLocked(parks[j])}) IN
             IF r <= Len(route) THEN route[r] ELSE Null]

\* return { orderedStops: [...selectedParks], optimized: false, beforeOrder };
skipped(parks) == [orderedStops |-> parks, optimized |-> FALSE]

computeStopOrder(parks, origin, optimizeChecked, noBacktracking) ==
    IF ~optimizeChecked \/ Len(parks) < minForOptimize(origin) THEN skipped(parks)
    ELSE LET unlocked == unlockedOf(parks) IN
         IF Len(unlocked) <= 1 THEN skipped(parks)
         ELSE LET route ==
                    IF origin # NoOrigin
                    THEN greedyLoop(<<>>, origin, unlocked, noBacktracking)
                    ELSE LET start == IF IsLocked(parks[1]) /\ Len(unlocked) > 0
                                      THEN unlocked[1] ELSE parks[1] IN
                         greedyLoop(<<start>>, start.coords,
                                    SelectSeq(unlocked, LAMBDA p : p.id # start.id),
                                    noBacktracking)
              IN  [orderedStops |-> rebuilt(parks, route), optimized |-> TRUE]

(***************************************************************************)
(* CORE ROUTING  (buildLegs) and DAY PLAN  (generateDayPlan)               *)
(***************************************************************************)

Min(a, b) == IF a < b THEN a ELSE b
Max(a, b) == IF a > b THEN a ELSE b

\* Prepend origin as a virtual first stop (not stored in selectedParks)
stopsForRouting(orderedStops, origin) ==
    IF origin # NoOrigin
    THEN <<[id |-> OriginId, coords |-> origin, locked |-> TRUE, mustSee |-> TRUE]>>
         \o orderedStops
    ELSE orderedStops

\* One leg; names are the stop ids, hours are kept as whole minutes (hours * 60).
legBetween(from, to, speedMph) ==
    LET miles == milesBetween(from.coords, to.coords) IN
    [fromId |-> from.id, toId |-> to.id, fromName |-> from.id, toName |-> to.id,
     miles |-> miles, mins |-> (miles * 60) \div (100 * Max(1, speedMph))]

buildLegsNoClosingLeg(orderedStops, roundTripOn, speedMph) ==
    IF Len(orderedStops) < 2 THEN <<>>
    ELSE [i \in 1..(Len(orderedStops) - 1) |->
            legBetween(orderedStops[i], orderedStops[i + 1], speedMph)]

\* The value buildLegs leaves in currentLegs.
buildLegs(orderedStops, roundTripOn, speedMph) ==
    IF Len(orderedStops) < 2 THEN <<>>
    ELSE LET stopsForLegs == IF roundTripOn THEN Append(orderedStops, orderedStops[1])
                                            ELSE orderedStops
         IN  [i \in 1..(Len(stopsForLegs) - 1) |->
                 legBetween(stopsForLegs[i], stopsForLegs[i + 1], speedMph)]

\* Math.min(Math.max(0, sleepMins - wakeMins - breakMins), maxDriveHoursPerDay * 60)
driveBudgetMinsUnclamped(rules) ==
    Min(rules.sleepMins - rules.wakeMins - rules.breakMinutesPerDay,
        rules.maxDriveHoursPerDay * 60)

\* const driveBudgetMins = Math.min(Math.max(0, sleep - wake - break), maxDrive * 60)
driveBudgetMins(rules) ==
    Min(Max(0, rules.sleepMins - rules.wakeMins - rules.breakMinutesPerDay),
        rules.maxDriveHoursPerDay * 60)

destIsMustSeeNever(parks, toId) == FALSE

\* mustSeeById.get(leg.toId) !== false, with mustSeeById built from selectedParks
destIsMustSee(parks, toId) ==
    LET hits == {i \in 1..Len(parks) : parks[i].id = toId} IN
    IF hits = {} THEN TRUE
    ELSE parks[CHOOSE i \in hits : \A j \in hits : j <= i].mustSee # FALSE

wouldOverflowLegOnly(dayLegs, dayDriveMins, legMins, budget) ==
    Len(dayLegs) > 0 /\ legMins > budget

\* if (dayLegs.length && dayDriveMins + legMins > driveBudgetMins)
wouldOverflow(dayLegs, dayDriveMins, legMins, budget) ==
    Len(dayLegs) > 0 /\ dayDriveMins + legMins > budget

pushDayKeepsLegs(st, rules) ==
    IF Len(st.dayLegs) = 0 THEN st
    ELSE [st EXCEPT !.plan = Append(@, [day |-> st.day, legs |-> st.dayLegs,
                                        miles |-> st.dayMiles, driveMins |-> st.dayDriveMins,
                                        visitMins |-> rules.visitMins,
                                        startMins |-> rules.wakeMins,
                                        endMins |-> rules.wakeMins + st.dayDriveMins
                                            + Max(0, Len(st.dayLegs) - 1) * rules.visitMins
                                            + rules.breakMinutesPerDay]),
                    !.day = @ + 1, !.dayDriveMins = 0, !.dayMiles = 0]

\* function pushDay() inside generateDayPlan; driveHours is kept as driveMins.
pushDay(st, rules) ==
    IF Len(st.dayLegs) = 0 THEN st
    ELSE [st EXCEPT !.plan = Append(@, [day |-> st.day, legs |-> st.dayLegs,
                                        miles |-> st.dayMiles, driveMins |-> st.dayDriveMins,
                                        visitMins |-> rules.visitMins,
                                        startMins |-> rules.wakeMins,
                                        endMins |-> rules.wakeMins + st.dayDriveMins
                                            + Max(0, Len(st.dayLegs) - 1) * rules.visitMins
                                            + rules.breakMinutesPerDay]),
                    !.day = @ + 1, !.dayLegs = <<>>, !.dayDriveMins = 0, !.dayMiles = 0]

\* for (let i = 0; i < currentLegs.length; i++) { ... }   (leg indices are 1-based here)
RECURSIVE packLoop(_, _, _, _, _)
packLoop(legs, parks, rules, i, st) ==
    IF i > Len(legs) THEN st
    ELSE LET leg     == legs[i]
             legMins == leg.mins
             over    == wouldOverflow(st.dayLegs, st.dayDriveMins, legMins,
                                      driveBudgetMins(rules))
         IN  IF over /\ ~destIsMustSee(parks, leg.toId)
             THEN packLoop(legs, parks, rules, i + 1,
                           [st EXCEPT !.droppedOptional = Append(@, leg.toName)])
             ELSE LET s1 == IF over THEN pushDay(st, rules) ELSE st IN
                  packLoop(legs, parks, rules, i + 1,
                           [s1 EXCEPT !.dayLegs = Append(@, i),
                                      !.dayDriveMins = @ + legMins,
                                      !.dayMiles = @ + leg.miles])

\* The value generateDayPlan returns; plan is also what it writes to dayPlan.
generateDayPlan(legs, parks, rules) ==
    IF Len(legs) = 0 THEN [plan |-> <<>>, droppedOptional |-> <<>>]
    ELSE LET st0 == [day |-> 1, dayLegs |-> <<>>, dayDriveMins |-> 0, dayMiles |-> 0,
                     plan |-> <<>>, droppedOptional |-> <<>>]
             st  == pushDay(packLoop(legs, parks, rules, 1, st0), rules)
         IN  [plan |-> st.plan, droppedOptional |-> st.droppedOptional]

(***************************************************************************)
(* VIOLATIONS  (computeViolations)                                         *)
(*                                                                         *)
(* An issue is a record [type, about]: about is the stop id of a "closed"  *)
(* issue, the day count of a "days" issue, the number of reversing legs of *)
(* a "backtrack" issue and 0 otherwise.                                    *)
(***************************************************************************)

\* PARK_CLOSED_MONTHS of the sample parks: id 1 closes in winter (as blca), id 3 in
\* spring (as voya), id 4 from November to May (as isro), every other park is open
\* all year (as yose).
ParkClosedMonths(id) ==
    IF id = 1 THEN {1, 2, 3, 11, 12}
    ELSE IF id = 3 THEN {4, 5}
    ELSE IF id = 4 THEN {1, 2, 3, 4, 5, 11, 12}
    ELSE {}

isParkClosedInMonth(id, month) == month \in ParkClosedMonths(id)

\* legs.reduce((m, l) => Math.max(m, l.hours || 0), 0), in minutes
RECURSIVE longestOf(_, _)
longestOf(legs, i) ==
    IF i > Len(legs) THEN 0 ELSE Max(legs[i].mins, longestOf(legs, i + 1))

\* legs.reduce((s, l) => s + (l.hours || 0), 0), in minutes
RECURSIVE totalOf(_, _)
totalOf(legs, i) ==
    IF i > Len(legs) THEN 0 ELSE legs[i].mins + totalOf(legs, i + 1)

\* windowMins of computeViolations
windowMinsOf(rules) ==
    Min(Max(0, rules.sleepMins - rules.wakeMins - rules.breakMinutesPerDay),
        rules.maxDriveHoursPerDay * 60)

\* selectedParks.find(p => p.id === id)?.coords ?? [0,0]
coordsOrZero(parks, id) ==
    LET hits == {i \in 1..Len(parks) : parks[i].id = id} IN
    IF hits = {} THEN <<0, 0>>
    ELSE parks[CHOOSE i \in hits : \A j \in hits : i <= j].coords

legBearing(parks, leg) ==
    bearingBetween(coordsOrZero(parks, leg.fromId), coordsOrZero(parks, leg.toId))

legIssuesPerLeg(legs, rules) ==
    [k \in 1..Cardinality({i \in 1..Len(legs) : legs[i].mins > rules.maxSingleLegHours * 60})
        |-> [type |-> "leg", about |-> 0]]

\* "Longest single leg" check
legIssues(legs, rules) ==
    IF longestOf(legs, 1) > rules.maxSingleLegHours * 60
    THEN <<[type |-> "leg", about |-> 0]>> ELSE <<>>

\* "Leg exceeds the daily driving window" check
windowIssues(legs, rules) ==
    IF longestOf(legs, 1) > windowMinsOf(rules)
    THEN <<[type |-> "window", about |-> 0]>> ELSE <<>>

\* requiredDays = Math.max(1, Math.ceil(totalHours / Math.max(0.1, windowHours)))
requiredDays(legs, rules) ==
    LET w == Max(6, windowMinsOf(rules)) IN
    Max(1, (totalOf(legs, 1) + w - 1) \div w)

\* "Total trip length" check
daysIssues(legs, rules) ==
    IF requiredDays(legs, rules) >= 10
    THEN <<[type |-> "days", about |-> requiredDays(legs, rules)]>> ELSE <<>>

backtrackCount(legs, parks) ==
    Cardinality({i \in 2..Len(legs) :
        bearingDiff(legBearing(parks, legs[i - 1]), legBearing(parks, legs[i])) > 1200})

\* "Backtracking detection" check
backtrackIssues(legs, parks) ==
    IF Len(legs) >= 2 /\ backtrackCount(legs, parks) > 0
    THEN <<[type |-> "backtrack", about |-> backtrackCount(legs, parks)]>> ELSE <<>>

closedIssuesOnePerTrip(parks, rules) ==
    IF rules.travelMonth # 0
       /\ \E i \in 1..Len(parks) : isParkClosedInMonth(parks[i].id, rules.travelMonth)
    THEN <<[type |-> "closed", about |-> 0]>> ELSE <<>>

\* "Seasonal closures" check: one issue per closed selected park, in selection order
closedIssues(parks, rules) ==
    IF rules.travelMonth = 0 THEN <<>>
    ELSE LET closedParks == SelectSeq(parks,
                 LAMBDA p : isParkClosedInMonth(p.id, rules.travelMonth))
         IN  [k \in 1..Len(closedParks) |-> [type |-> "closed", about |-> closedParks[k].id]]

\* "Lock + round trip warning" check
lockIssues(parks, optimizeChecked, roundTripChecked) ==
    IF optimizeChecked /\ (\E i \in 1..Len(parks) : parks[i].locked) /\ roundTripChecked
    THEN <<[type |-> "lock", about |-> 0]>> ELSE <<>>

allChecks(legs, parks, rules, optimizeChecked, roundTripChecked) ==
    legIssues(legs, rules) \o windowIssues(legs, rules) \o daysIssues(legs, rules)
        \o backtrackIssues(legs, parks) \o closedIssues(parks, rules)
        \o lockIssues(parks, optimizeChecked, roundTripChecked)

computeViolationsNoEmptyGuard(legs, parks, rules, optimizeChecked, roundTripChecked) ==
    allChecks(legs, parks, rules, optimizeChecked, roundTripChecked)

\* computeViolations(legs): no issue for an empty leg list, the six checks otherwise
computeViolations(legs, parks, rules, optimizeChecked, roundTripChecked) ==
    IF Len(legs) = 0 THEN <<>>
    ELSE allChecks(legs, parks, rules, optimizeChecked, roundTripChecked)

(***************************************************************************)
(* Values shared by the specifications                                     *)
(***************************************************************************)

\* const tripRules = {...}: 6 h/day, 10 h/leg, no break, 08:00-20:00, 55 mph, 1.5 h visits
DefaultRules ==
    [maxDriveHoursPerDay |-> 6, maxSingleLegHours |-> 10, breakMinutesPerDay |-> 0,
     wakeMins |-> 480, sleepMins |-> 1200, speedMph |-> 55,
     noBacktracking |-> FALSE, visitMins |-> 90, travelMonth |-> 0]

NoResult == [orderedStops |-> <<>>, optimized |-> FALSE]

\* Stop lists as the add handlers build them: distinct ids, here id = position on entry.
StopLists(n, coordSet, lockSet, mustSeeSet) ==
    {[i \in 1..n |-> [id |-> i, coords |-> c[i], locked |-> l[i], mustSee |-> m[i]]] :
        c \in [1..n -> coordSet], l \in [1..n -> lockSet], m \in [1..n -> mustSeeSet]}

NoInvocations == <<>>

RouteIdle ==
    /\ routeGeometry = <<>>
    /\ routeRequestController = 0
    /\ isRouting = FALSE
    /\ routeUpdateTimer = FALSE
    /\ inv = NoInvocations

\* existing.matrix = {} : no pair has an entry
EmptyMatrix == [key \in {} |-> <<0, 0>>]

\* parksHash: null, a value the hash of no park list equals
NullHash == <<[parkCode |-> 0, rev |-> 0]>>

\* let existing = { builtAt: null, parksHash: null, matrix: {} }, also the content
\* read when drive_matrix.json does not exist
NoMatrixFile == [exists |-> FALSE, parksHash |-> NullHash, matrix |-> EmptyMatrix]

\* No main() of build_drive_matrix is running; runs of them have finished.
IdleBuild(runs) ==
    [pc |-> "idle", parksHash |-> NullHash, allPairs |-> <<>>, matrix |-> EmptyMatrix,
     next |-> 1, runs |-> runs]

BuildIdle ==
    /\ parksJson = <<>>
    /\ driveMatrixJson = NoMatrixFile
    /\ build = IdleBuild(0)

routeVars == <<routeGeometry, routeRequestController, isRouting, routeUpdateTimer, inv>>

buildVars == <<parksJson, driveMatrixJson, build>>

appVars == <<selectedParks, originPoint, optimizeToggle, roundTripToggle, tripRules,
             currentLegs, dayPlan, droppedOptional, violations, orderResult, phase,
             routeGeometry, routeRequestController, isRouting, routeUpdateTimer, inv>>

PlanCoords == {<<0, 0>>, <<1, 0>>, <<2, 0>>}
PlanOrigins == {<<-1, 0>>}

\* Rule settings the trip-rules form can hold: the defaults, lower daily caps, a
\* break, a short waking window and a window that is negative (sleep before wake).
PlanRules ==
    {DefaultRules,
     [DefaultRules EXCEPT !.maxDriveHoursPerDay = 1],
     [DefaultRules EXCEPT !.maxDriveHoursPerDay = 2],
     [DefaultRules EXCEPT !.maxDriveHoursPerDay = 4, !.breakMinutesPerDay = 30],
     [DefaultRules EXCEPT !.sleepMins = 600, !.breakMinutesPerDay = 30],
     [DefaultRules EXCEPT !.wakeMins = 1200, !.sleepMins = 480]}

(***************************************************************************)
(* Specification of the optimizer as a function of its inputs              *)
(***************************************************************************)
OptInit ==
    /\ selectedParks \in UNION {StopLists(n, StopCoords, BOOLEAN, {TRUE}) : n \in 0..MaxStops}
    /\ originPoint \in {NoOrigin} \cup OriginCoords
    /\ optimizeToggle \in BOOLEAN
    /\ roundTripToggle = FALSE
    /\ tripRules \in {[DefaultRules EXCEPT !.noBacktracking = b] : b \in BOOLEAN}
    /\ currentLegs = <<>>
    /\ dayPlan = <<>>
    /\ droppedOptional = <<>>
    /\ violations = <<>>
    /\ orderResult = NoResult
    /\ phase = "input"
    /\ RouteIdle
    /\ BuildIdle

\* const { orderedStops, optimized } = await computeStopOrder();
OptCompute ==
    /\ phase = "input"
    /\ orderResult' = computeStopOrder(selectedParks, originPoint, optimizeToggle,
                                        tripRules.noBacktracking)
    /\ phase' = "ordered"
    /\ UNCHANGED <<selectedParks, originPoint, optimizeToggle, roundTripToggle, tripRules,
                   currentLegs, dayPlan, droppedOptional, violations>>
    /\ UNCHANGED routeVars
    /\ UNCHANGED buildVars

OptNext == OptCompute

OptSpec == OptInit /\ [][OptNext]_vars

NumUnlocked == Cardinality({i \in 1..Len(selectedParks) : ~selectedParks[i].locked})
NumLocked == Cardinality({i \in 1..Len(selectedParks) : selectedParks[i].locked})

\* C1: every stop locked at index i of the input is at index i of the returned
\* sequence, whatever the origin, the rules and the unlocked stops around it.
C1_LockedStopsKeepIndex ==
    phase = "ordered" =>
        /\ Len(orderResult.orderedStops) = Len(selectedParks)
        /\ \A i \in 1..Len(selectedParks) :
              selectedParks[i].locked => orderResult.orderedStops[i] = selectedParks[i]

C1_Witness ==
    /\ phase = "ordered"
    /\ orderResult.optimized
    /\ orderResult.orderedStops # selectedParks
    /\ \E i \in 2..(Len(selectedParks) - 1) : selectedParks[i].locked

\* C2: the returned sequence is a permutation of the input: same length and every
\* input stop exactly once, whether or not optimization ran.
C2_Permutation ==
    phase = "ordered" =>
        /\ Len(orderResult.orderedStops) = Len(selectedParks)
        /\ \A i \in 1..Len(selectedParks) :
              Cardinality({j \in 1..Len(orderResult.orderedStops) :
                              orderResult.orderedStops[j] = selectedParks[i]}) = 1

C2_Witness ==
    /\ phase = "ordered"
    /\ orderResult.optimized
    /\ Len(selectedParks) = MaxStops
    /\ NumLocked = 0
    /\ orderResult.orderedStops # selectedParks

\* C7 as stated: optimization is skipped unless the number of UNLOCKED stops reaches
\* 3 without an origin, 2 with an origin.
C7_Original ==
    (phase = "ordered" /\ NumUnlocked < (IF originPoint # NoOrigin THEN 2 ELSE 3)) =>
        (orderResult.optimized = FALSE /\ orderResult.orderedStops = selectedParks)

\* C7 amended: optimization is skipped unless the TOTAL number of stops reaches the
\* minimum (3 without an origin, 2 with one) and at least 2 stops are unlocked; with
\* no origin, 2 unlocked stops plus at least one locked stop yield optimized = true.
C7_SkipUnlessEnoughStops ==
    /\ (phase = "ordered" /\ (Len(selectedParks) < (IF originPoint # NoOrigin THEN 2 ELSE 3)
                                \/ NumUnlocked < 2)) =>
          (orderResult.optimized = FALSE /\ orderResult.orderedStops = selectedParks)
    /\ (phase = "ordered" /\ optimizeToggle /\ originPoint = NoOrigin
           /\ NumUnlocked = 2 /\ NumLocked >= 1) =>
          orderResult.optimized = TRUE

C7_Witness ==
    /\ phase = "ordered"
    /\ optimizeToggle
    /\ originPoint = NoOrigin
    /\ NumUnlocked = 2
    /\ NumLocked = 1
    /\ orderResult.optimized

\* C8: below the size threshold (fewer than 3 stops without an origin, fewer than 2
\* with one) the input order is returned and optimized is false.
C8_BelowThresholdUnchanged ==
    (phase = "ordered" /\ Len(selectedParks) < (IF originPoint # NoOrigin THEN 2 ELSE 3)) =>
        (orderResult.orderedStops = selectedParks /\ orderResult.optimized = FALSE)

C8_Witness ==
    /\ phase = "ordered"
    /\ optimizeToggle
    /\ originPoint = NoOrigin
    /\ Len(selectedParks) = 2
    /\ NumUnlocked = 2
    /\ orderResult.optimized = FALSE
    /\ orderResult.orderedStops = selectedParks

\* C9: when every stop is locked the original order is returned, for any origin
\* and any rules.
C9_AllLockedUnchanged ==
    (phase = "ordered" /\ \A i \in 1..Len(selectedParks) : selectedParks[i].locked) =>
        orderResult.orderedStops = selectedParks

C9_Witness ==
    /\ phase = "ordered"
    /\ optimizeToggle
    /\ Len(selectedParks) = MaxStops
    /\ NumLocked = MaxStops
    /\ originPoint # NoOrigin
    /\ tripRules.noBacktracking
    /\ orderResult.orderedStops = selectedParks

\* The greedy route: the unlocked stops in the order they were returned.
OptRoute == SelectSeq(orderResult.orderedStops, LAMBDA p : ~p.locked)

InputIndex(p) == CHOOSE i \in 1..Len(selectedParks) : selectedParks[i].id = p.id

\* Distance of the k-th pick candidate c from the position placed last before it.
PickDistance(k, c) ==
    milesBetween(IF k = 1 THEN originPoint ELSE OptRoute[k - 1].coords, c.coords)

\* C15: with noBacktracking off, every pick of the greedy loop has the minimum
\* distance from the position placed last (the origin for the first pick when there
\* is one; without an origin the first unlocked stop is the fixed start) among the
\* unlocked stops not placed yet, and among those at that minimum distance it is the
\* earliest of the input order.
C15_NearestThenEarliest ==
    (phase = "ordered" /\ orderResult.optimized /\ ~tripRules.noBacktracking) =>
        /\ Len(OptRoute) = NumUnlocked
        /\ originPoint = NoOrigin =>
              \A i \in 1..Len(selectedParks) :
                  ~selectedParks[i].locked => InputIndex(OptRoute[1]) <= i
        /\ \A k \in 1..Len(OptRoute) : \A j \in k..Len(OptRoute) :
              (k > 1 \/ originPoint # NoOrigin) =>
                  /\ PickDistance(k, OptRoute[k]) <= PickDistance(k, OptRoute[j])
                  /\ PickDistance(k, OptRoute[k]) = PickDistance(k, OptRoute[j])
                        => InputIndex(OptRoute[k]) <= InputIndex(OptRoute[j])

\* The example of the claim: C(2,0), A(0,0), B(1,0) selected in that order, origin
\* (-1,0), returned as A, B, C.
C15_Witness ==
    /\ phase = "ordered"
    /\ orderResult.optimized
    /\ ~tripRules.noBacktracking
    /\ originPoint = <<-1, 0>>
    /\ [i \in 1..Len(selectedParks) |-> selectedParks[i].coords]
          = <<(<<2, 0>>), (<<0, 0>>), (<<1, 0>>)>>
    /\ NumLocked = 0
    /\ [i \in 1..Len(orderResult.orderedStops) |-> orderResult.orderedStops[i].coords]
          = <<(<<0, 0>>), (<<1, 0>>), (<<2, 0>>)>>

\* The order computeStopOrder returns when it is run on its own output, as the next
\* route update does after updateRoute wrote the order back into selectedParks.
OrderOfOrder ==
    computeStopOrder(orderResult.orderedStops, originPoint, optimizeToggle,
                     tripRules.noBacktracking).orderedStops

\* C30: the optimizer's output is a fixed point: run again on the order it returned,
\* with the same origin, rules and lock flags, it returns that same order.
C30_OptimizedOrderIsFixedPoint ==
    phase = "ordered" => OrderOfOrder = orderResult.orderedStops

\* A run that reordered the stops.
C30_Witness ==
    /\ phase = "ordered"
    /\ orderResult.optimized
    /\ orderResult.orderedStops # selectedParks
    /\ OrderOfOrder = orderResult.orderedStops

(***************************************************************************)
(* Specification of buildLegs followed by generateDayPlan                  *)
(***************************************************************************)
PlanInit ==
    /\ selectedParks \in UNION {StopLists(n, PlanCoords, {FALSE}, BOOLEAN) : n \in 0..MaxStops}
    /\ originPoint \in {NoOrigin} \cup PlanOrigins
    /\ optimizeToggle = FALSE
    /\ roundTripToggle \in BOOLEAN
    /\ tripRules \in PlanRules
    /\ currentLegs = <<>>
    /\ dayPlan = <<>>
    /\ droppedOptional = <<>>
    /\ violations = <<>>
    /\ orderResult = NoResult
    /\ phase = "input"
    /\ RouteIdle
    /\ BuildIdle

\* updateRoute after its awaits, for a trip without a day plan:
\* buildLegs(stopsForRouting, roundTripOn); ...; renderViolations(computeViolations(currentLegs));
PlanBuildLegs ==
    /\ phase = "input"
    /\ currentLegs' = buildLegs(stopsForRouting(selectedParks, originPoint),
                                 roundTripToggle, tripRules.speedMph)
    /\ violations' = computeViolations(currentLegs', selectedParks, tripRules,
                                       optimizeToggle, roundTripToggle)
    /\ phase' = "legs"
    /\ UNCHANGED <<selectedParks, originPoint, optimizeToggle, roundTripToggle, tripRules,
                   dayPlan, droppedOptional, orderResult>>
    /\ UNCHANGED routeVars
    /\ UNCHANGED buildVars

\* autoScheduleBtn click: const { plan, droppedOptional } = generateDayPlan();
PlanGenerate ==
    /\ phase = "legs"
    /\ LET res == generateDayPlan(currentLegs, selectedParks, tripRules) IN
         /\ dayPlan' = res.plan
         /\ droppedOptional' = res.droppedOptional
    /\ phase' = "planned"
    /\ UNCHANGED <<selectedParks, originPoint, optimizeToggle, roundTripToggle, tripRules,
                   currentLegs, violations, orderResult>>
    /\ UNCHANGED routeVars
    /\ UNCHANGED buildVars

PlanNext == PlanBuildLegs \/ PlanGenerate

PlanSpec == PlanInit /\ [][PlanNext]_vars

IssuesOfType(t) == {k \in 1..Len(violations) : violations[k].type = t}

\* Leg indices assigned to some day of the stored plan.
ScheduledLegs == UNION {{dayPlan[d].legs[k] : k \in 1..Len(dayPlan[d].legs)} : d \in 1..Len(dayPlan)}

DaysOfLeg(i) == {d \in 1..Len(dayPlan) : \E k \in 1..Len(dayPlan[d].legs) : dayPlan[d].legs[k] = i}

\* The stop a leg arrives at is optional: it is selected and its mustSee flag is false.
DestOptional(leg) ==
    \E i \in 1..Len(selectedParks) :
        selectedParks[i].id = leg.toId /\ selectedParks[i].mustSee = FALSE

\* C4: every name in droppedOptional is the destination of a leg whose destination
\* stop has mustSee = false, and every leg whose destination is must-see (or carries
\* no flag) is assigned to some day.
C4_NeverDropsMustSee ==
    phase = "planned" =>
        /\ \A k \in 1..Len(droppedOptional) :
              \E i \in 1..Len(currentLegs) :
                  currentLegs[i].toName = droppedOptional[k] /\ DestOptional(currentLegs[i])
        /\ \A i \in 1..Len(currentLegs) :
              ~DestOptional(currentLegs[i]) => i \in ScheduledLegs

C4_Witness ==
    /\ phase = "planned"
    /\ Len(droppedOptional) >= 1
    /\ Len(dayPlan) >= 2
    /\ \E i \in 1..Len(selectedParks) : selectedParks[i].mustSee

\* C5 as stated: every leg index appears in exactly one day's leg list.
C5_Original ==
    phase = "planned" =>
        \A i \in 1..Len(currentLegs) : Cardinality(DaysOfLeg(i)) = 1

\* C5 amended: every leg index appears in at most one day's leg list and exactly once
\* there; it appears in exactly one day unless the leg was dropped as optional, and
\* the legs in no day are as many as the names in droppedOptional.
C5_EveryKeptLegInOneDay ==
    phase = "planned" =>
        /\ \A i \in 1..Len(currentLegs) :
              /\ Cardinality(DaysOfLeg(i)) <= 1
              /\ \A d \in DaysOfLeg(i) :
                    Cardinality({k \in 1..Len(dayPlan[d].legs) : dayPlan[d].legs[k] = i}) = 1
              /\ (DaysOfLeg(i) = {}) => DestOptional(currentLegs[i])
        /\ ScheduledLegs \subseteq 1..Len(currentLegs)
        /\ Cardinality((1..Len(currentLegs)) \ ScheduledLegs) = Len(droppedOptional)

C5_Witness ==
    /\ phase = "planned"
    /\ Len(dayPlan) >= 2
    /\ Len(droppedOptional) >= 1
    /\ Len(currentLegs) = MaxStops

\* C6: a leg whose drive minutes alone exceed the daily budget and which opens a day
\* is the only leg of that day; the first leg of the route, which always opens day 1,
\* is never discarded.
C6_OversizedLegAlone ==
    phase = "planned" =>
        /\ \A d \in 1..Len(dayPlan) :
              currentLegs[dayPlan[d].legs[1]].mins > driveBudgetMins(tripRules)
                  => dayPlan[d].legs = <<dayPlan[d].legs[1]>>
        /\ Len(currentLegs) > 0 => (Len(dayPlan) > 0 /\ dayPlan[1].legs[1] = 1)

C6_Witness ==
    /\ phase = "planned"
    /\ Len(dayPlan) >= 2
    /\ driveBudgetMins(tripRules) > 0
    /\ currentLegs[dayPlan[1].legs[1]].mins > driveBudgetMins(tripRules)
    /\ currentLegs[dayPlan[2].legs[1]].mins <= driveBudgetMins(tripRules)
    /\ dayPlan[1].legs = <<1>>

\* C10 as stated: for n >= 1 stops buildLegs produces n-1 legs without roundTrip and
\* n legs with it.
C10_Original ==
    LET stops == stopsForRouting(selectedParks, originPoint) IN
    (phase = "legs" /\ Len(stops) >= 1) =>
        Len(currentLegs) = (IF roundTripToggle THEN Len(stops) ELSE Len(stops) - 1)

\* C10 amended: for n >= 2 stops buildLegs produces n-1 legs without roundTrip and n
\* legs with it, leg i going from stop i to stop i+1 and the extra leg from the last
\* stop back to the first; for n <= 1 it produces no leg, roundTrip or not.
C10_LegCount ==
    LET stops == stopsForRouting(selectedParks, originPoint)
        n     == Len(stops)
    IN  phase = "legs" =>
          /\ n <= 1 => currentLegs = <<>>
          /\ n >= 2 =>
                /\ Len(currentLegs) = (IF roundTripToggle THEN n ELSE n - 1)
                /\ \A i \in 1..(n - 1) :
                      currentLegs[i].fromId = stops[i].id /\ currentLegs[i].toId = stops[i + 1].id
                /\ roundTripToggle =>
                      (currentLegs[n].fromId = stops[n].id /\ currentLegs[n].toId = stops[1].id)

C10_Witness ==
    /\ phase = "legs"
    /\ roundTripToggle
    /\ originPoint # NoOrigin
    /\ Len(selectedParks) = MaxStops
    /\ Len(currentLegs) = MaxStops + 1
    /\ currentLegs[MaxStops + 1].toId = OriginId

\* C16: each day's leg list is a contiguous slice of the route: its leg indices are
\* consecutive integers, also when optional stops are dropped.
C16_DayLegsContiguous ==
    phase = "planned" =>
        \A d \in 1..Len(dayPlan) : \A k \in 1..(Len(dayPlan[d].legs) - 1) :
            dayPlan[d].legs[k + 1] = dayPlan[d].legs[k] + 1

\* Sum of the drive minutes of the legs whose indices are listed in idx.
RECURSIVE SumMins(_, _)
SumMins(idx, k) ==
    IF k > Len(idx) THEN 0 ELSE currentLegs[idx[k]].mins + SumMins(idx, k + 1)

\* Sum of the miles of the legs whose indices are listed in idx.
RECURSIVE SumMiles(_, _)
SumMiles(idx, k) ==
    IF k > Len(idx) THEN 0 ELSE currentLegs[idx[k]].miles + SumMiles(idx, k + 1)

\* Legs scheduled before leg i, and the day that is open when leg i is looked at:
\* the day of the last of them.
PrevScheduled(i) == {j \in ScheduledLegs : j < i}
CurrentDay(i) ==
    CHOOSE d \in 1..Len(dayPlan) :
        \E k \in 1..Len(dayPlan[d].legs) :
            /\ dayPlan[d].legs[k] \in PrevScheduled(i)
            /\ \A j \in PrevScheduled(i) : j <= dayPlan[d].legs[k]

\* Drive minutes the open day holds when leg i is looked at.
DriveBefore(i) ==
    SumMins(SelectSeq(dayPlan[CurrentDay(i)].legs, LAMBDA j : j < i), 1)

\* Leg i would overflow a drive budget of B minutes in the non-empty open day.
OverflowsWith(i, B) ==
    /\ PrevScheduled(i) # {}
    /\ DriveBefore(i) + currentLegs[i].mins > B

Overflows(i) == OverflowsWith(i, driveBudgetMins(tripRules))

\* The stored plan is the packing of the legs under a drive budget of B minutes.
PackedWithBudget(B) ==
    \A i \in 1..Len(currentLegs) :
        /\ PrevScheduled(i) = {} => (i = 1 /\ dayPlan[1].legs[1] = 1)
        /\ (OverflowsWith(i, B) /\ DestOptional(currentLegs[i])) => i \notin ScheduledLegs
        /\ (OverflowsWith(i, B) /\ ~DestOptional(currentLegs[i])) =>
              /\ CurrentDay(i) + 1 <= Len(dayPlan)
              /\ dayPlan[CurrentDay(i) + 1].legs[1] = i
        /\ (PrevScheduled(i) # {} /\ ~OverflowsWith(i, B)) =>
              \E k \in 2..Len(dayPlan[CurrentDay(i)].legs) :
                  dayPlan[CurrentDay(i)].legs[k] = i

LongestLegMins == longestOf(currentLegs, 1)

WindowOfRules == tripRules.sleepMins - tripRules.wakeMins - tripRules.breakMinutesPerDay

\* C18 as stated: pack and detect work with a daily budget of
\* min(maxDriveHoursPerDay*60, sleepTime - wakeTime - breakMinutesPerDay) minutes,
\* also when sleepTime - wakeTime - breakMinutesPerDay is negative.
C18_Original ==
    LET B == Min(tripRules.maxDriveHoursPerDay * 60, WindowOfRules) IN
    (phase = "planned" /\ Len(currentLegs) > 0) =>
        /\ PackedWithBudget(B)
        /\ (IssuesOfType("window") # {}) <=> (LongestLegMins > B)

\* C18 amended: pack and detect work with a daily budget of
\* min(maxDriveHoursPerDay*60, max(0, sleepTime - wakeTime - breakMinutesPerDay))
\* minutes: a negative waking window counts as zero.
C18_BudgetClampedAtZero ==
    LET B == Min(tripRules.maxDriveHoursPerDay * 60, Max(0, WindowOfRules)) IN
    (phase = "planned" /\ Len(currentLegs) > 0) =>
        /\ PackedWithBudget(B)
        /\ (IssuesOfType("window") # {}) <=> (LongestLegMins > B)

C18_Witness ==
    /\ phase = "planned"
    /\ WindowOfRules < 0
    /\ Len(dayPlan) >= 2
    /\ \E d \in 1..Len(dayPlan) : Len(dayPlan[d].legs) >= 2
    /\ LongestLegMins > 0
    /\ IssuesOfType("window") # {}

\* C17: a leg that would overflow the budget of the non-empty open day is skipped
\* when its destination is optional (its name goes to droppedOptional, the day stays
\* open with the totals of its own legs, and a later leg that fits joins that day)
\* and opens the next day when its destination is must-see; a leg that fits joins the
\* open day.  Every day after the first starts with a leg to a must-see destination.
C17_OverflowSkipsOrClosesDay ==
    phase = "planned" =>
        /\ \A i \in 1..Len(currentLegs) :
              /\ PrevScheduled(i) = {} => (i = 1 /\ dayPlan[1].legs[1] = 1)
              /\ (Overflows(i) /\ DestOptional(currentLegs[i])) =>
                    /\ i \notin ScheduledLegs
                    /\ \E k \in 1..Len(droppedOptional) :
                          droppedOptional[k] = currentLegs[i].toName
              /\ (Overflows(i) /\ ~DestOptional(currentLegs[i])) =>
                    /\ CurrentDay(i) + 1 <= Len(dayPlan)
                    /\ dayPlan[CurrentDay(i) + 1].legs[1] = i
              /\ (PrevScheduled(i) # {} /\ ~Overflows(i)) =>
                    \E k \in 2..Len(dayPlan[CurrentDay(i)].legs) :
                        dayPlan[CurrentDay(i)].legs[k] = i
        /\ \A d \in 1..Len(dayPlan) :
              /\ dayPlan[d].driveMins = SumMins(dayPlan[d].legs, 1)
              /\ d >= 2 => ~DestOptional(currentLegs[dayPlan[d].legs[1]])

C17_Witness ==
    /\ phase = "planned"
    /\ Len(dayPlan) >= 2
    /\ \E k \in 1..(Len(dayPlan[1].legs) - 1) :
          /\ dayPlan[1].legs[k + 1] > dayPlan[1].legs[k] + 1
          /\ Overflows(dayPlan[1].legs[k] + 1)
          /\ DestOptional(currentLegs[dayPlan[1].legs[k] + 1])
    /\ Overflows(dayPlan[2].legs[1])

\* C19: every day of the plan ends at wakeMins + the drive minutes of its legs +
\* (number of its legs - 1) * visit minutes per park + break minutes, and its miles
\* and drive time are the sums over exactly the legs listed in it.
C19_DayTotals ==
    phase = "planned" =>
        \A d \in 1..Len(dayPlan) :
            /\ dayPlan[d].endMins = tripRules.wakeMins + SumMins(dayPlan[d].legs, 1)
                    + (Len(dayPlan[d].legs) - 1) * tripRules.visitMins
                    + tripRules.breakMinutesPerDay
            /\ dayPlan[d].miles = SumMiles(dayPlan[d].legs, 1)
            /\ dayPlan[d].driveMins = SumMins(dayPlan[d].legs, 1)

C19_Witness ==
    /\ phase = "planned"
    /\ tripRules.breakMinutesPerDay > 0
    /\ Len(dayPlan) >= 2
    /\ Len(droppedOptional) >= 1
    /\ \E d \in 1..Len(dayPlan) :
          /\ Len(dayPlan[d].legs) >= 2
          /\ dayPlan[d].driveMins > 0
          /\ dayPlan[d].endMins > tripRules.wakeMins + dayPlan[d].driveMins
                                    + tripRules.breakMinutesPerDay

\* C20: every day whose drive minutes are within the drive budget ends no later
\* than sleepTime, visit time and break time included.
C20_EndsBeforeSleep ==
    phase = "planned" =>
        \A d \in 1..Len(dayPlan) :
            dayPlan[d].driveMins <= driveBudgetMins(tripRules)
                => dayPlan[d].endMins <= tripRules.sleepMins

\* C23: the plan never reorders the route: reading the days in order and each day's
\* legs in order gives strictly increasing leg indices; the days are numbered 1, 2,
\* 3, ... without gaps and none is empty.
C23_RouteOrderKept ==
    phase = "planned" =>
        \A d \in 1..Len(dayPlan) :
            /\ dayPlan[d].day = d
            /\ Len(dayPlan[d].legs) >= 1
            /\ \A k \in 1..(Len(dayPlan[d].legs) - 1) :
                  dayPlan[d].legs[k] < dayPlan[d].legs[k + 1]
            /\ d < Len(dayPlan) =>
                  dayPlan[d].legs[Len(dayPlan[d].legs)] < dayPlan[d + 1].legs[1]

C23_Witness ==
    /\ phase = "planned"
    /\ Len(dayPlan) >= 3
    /\ Len(droppedOptional) >= 1
    /\ \E d \in 1..Len(dayPlan) : Len(dayPlan[d].legs) >= 2
    /\ dayPlan[Len(dayPlan)].day = Len(dayPlan)

\* The daily drive budget in minutes, from the rules.
BudgetOfRules == Min(tripRules.maxDriveHoursPerDay * 60, Max(0, WindowOfRules))

\* C24: a day whose drive minutes exceed the drive budget holds exactly one leg;
\* every day with two or more legs drives at most the budget.
C24_OverBudgetDayHasOneLeg ==
    phase = "planned" =>
        \A d \in 1..Len(dayPlan) :
            /\ SumMins(dayPlan[d].legs, 1) > BudgetOfRules => Len(dayPlan[d].legs) = 1
            /\ Len(dayPlan[d].legs) >= 2 => dayPlan[d].driveMins <= BudgetOfRules

C24_Witness ==
    /\ phase = "planned"
    /\ BudgetOfRules > 0
    /\ \E d \in 1..Len(dayPlan) :
          Len(dayPlan[d].legs) = 1 /\ dayPlan[d].driveMins > BudgetOfRules
    /\ \E d \in 1..Len(dayPlan) :
          /\ Len(dayPlan[d].legs) >= 2
          /\ dayPlan[d].driveMins > 0

\* C25: the scheduled legs form a drivable chain: every scheduled leg but the first
\* departs from the destination of the leg scheduled before it, so none departs from
\* a stop whose arrival leg was dropped as optional.
C25_DrivableChain ==
    phase = "planned" =>
        \A i \in ScheduledLegs : \A j \in PrevScheduled(i) :
            (\A h \in PrevScheduled(i) : h <= j) =>
                currentLegs[i].fromId = currentLegs[j].toId

(***************************************************************************)
(* Specification of the violation detector over trips, rules and toggles   *)
(***************************************************************************)

\* Values of the travel-month select: none, a winter month, a spring month.
TravelMonths == {0, 1, 4}

\* Rule settings for the detector: the defaults, limits below every leg, a single-leg
\* limit below every leg, and a negative waking window.
DetectRules ==
    {DefaultRules,
     [DefaultRules EXCEPT !.maxSingleLegHours = 1, !.maxDriveHoursPerDay = 1],
     [DefaultRules EXCEPT !.maxSingleLegHours = 1],
     [DefaultRules EXCEPT !.wakeMins = 1200, !.sleepMins = 480]}

\* Park positions of the detector's trips: two points one degree apart.
DetectCoords == {<<0, 0>>, <<1, 0>>}

DetectInit ==
    /\ selectedParks \in UNION {StopLists(n, DetectCoords, BOOLEAN, {TRUE}) : n \in 0..MaxStops}
    /\ originPoint \in {NoOrigin} \cup PlanOrigins
    /\ optimizeToggle \in BOOLEAN
    /\ roundTripToggle \in BOOLEAN
    /\ tripRules \in DetectRules
    /\ currentLegs = <<>>
    /\ dayPlan = <<>>
    /\ droppedOptional = <<>>
    /\ violations = <<>>
    /\ orderResult = NoResult
    /\ phase = "input"
    /\ RouteIdle
    /\ BuildIdle

\* buildLegs(stopsForRouting, roundTripOn) for the selected stops
DetectBuildLegs ==
    /\ phase = "input"
    /\ currentLegs' = buildLegs(stopsForRouting(selectedParks, originPoint),
                                 roundTripToggle, tripRules.speedMph)
    /\ phase' = "legs"
    /\ UNCHANGED <<selectedParks, originPoint, optimizeToggle, roundTripToggle, tripRules,
                   dayPlan, droppedOptional, violations, orderResult>>
    /\ UNCHANGED routeVars
    /\ UNCHANGED buildVars

\* travelMonthEl "change" handler with month m selected
travelMonthChange(m) ==
    /\ tripRules' = [tripRules EXCEPT !.travelMonth = m]
    /\ violations' = computeViolations(currentLegs, selectedParks, tripRules',
                                       optimizeToggle, roundTripToggle)
    /\ phase' = "detected"
    /\ UNCHANGED <<selectedParks, originPoint, optimizeToggle, roundTripToggle,
                   currentLegs, dayPlan, droppedOptional, orderResult>>
    /\ UNCHANGED routeVars
    /\ UNCHANGED buildVars

DetectNext ==
    \/ DetectBuildLegs
    \/ \E m \in TravelMonths : travelMonthChange(m)

DetectSpec == DetectInit /\ [][DetectNext]_vars

\* C12: a detection on an empty leg list shows no violation, whatever the rules, the
\* selected stops, their lock flags, the travel month and the optimize and round-trip
\* toggles are.
C12_EmptyLegsNoViolations ==
    (phase = "detected" /\ Len(currentLegs) = 0) => violations = <<>>

C12_Witness ==
    /\ phase = "detected"
    /\ Len(currentLegs) = 0
    /\ violations = <<>>
    /\ tripRules.travelMonth = 1
    /\ optimizeToggle /\ roundTripToggle
    /\ \E i \in 1..Len(selectedParks) : selectedParks[i].id = 1 /\ selectedParks[i].locked

\* C13: when the longest leg exceeds both maxSingleLegHours and the daily driving
\* window, the detection shows exactly one issue of type leg and exactly one of type
\* window, however many legs exceed the limits.
C13_OneLegOneWindowIssue ==
    (/\ phase = "detected"
     /\ \E i \in 1..Len(currentLegs) :
           /\ currentLegs[i].mins > tripRules.maxSingleLegHours * 60
           /\ currentLegs[i].mins > windowMinsOf(tripRules))
        => /\ Cardinality(IssuesOfType("leg")) = 1
           /\ Cardinality(IssuesOfType("window")) = 1

C13_Witness ==
    /\ phase = "detected"
    /\ Cardinality({i \in 1..Len(currentLegs) :
           /\ currentLegs[i].mins > tripRules.maxSingleLegHours * 60
           /\ currentLegs[i].mins > windowMinsOf(tripRules)}) >= 2
    /\ Cardinality(IssuesOfType("leg")) = 1
    /\ Cardinality(IssuesOfType("window")) = 1

\* Ids of the selected stops whose park is closed in the configured travel month, in
\* selection order.
ClosedStopIds ==
    LET closed == SelectSeq(selectedParks,
                      LAMBDA p : tripRules.travelMonth \in ParkClosedMonths(p.id))
    IN  [k \in 1..Len(closed) |-> closed[k].id]

\* Ids named by the closure issues shown, in the order shown.
ClosedIssueIds ==
    LET shown == SelectSeq(violations, LAMBDA x : x.type = "closed")
    IN  [k \in 1..Len(shown) |-> shown[k].about]

\* C21 as stated: every detection shows one closure issue for each selected stop
\* whose park is closed in the travel month, independently of the leg list, so also
\* for a trip that has no leg yet.
C21_Original ==
    phase = "detected" => ClosedIssueIds = ClosedStopIds

\* C21 amended: a detection on a non-empty leg list shows one closure issue for each
\* selected stop whose park is closed in the travel month, in selection order and
\* whatever the other checks find; a detection on an empty leg list shows no closure
\* issue (and no other issue), even when a selected stop is closed.
C21_ClosuresWhenLegsExist ==
    phase = "detected" =>
        /\ Len(currentLegs) > 0 => ClosedIssueIds = ClosedStopIds
        /\ Len(currentLegs) = 0 => ClosedIssueIds = <<>>

C21_Witness ==
    /\ phase = "detected"
    /\ Len(currentLegs) > 0
    /\ Len(ClosedStopIds) = 2
    /\ Len(ClosedStopIds) < Len(selectedParks)
    /\ ClosedIssueIds = ClosedStopIds
    /\ IssuesOfType("leg") # {}

\* Where the stop of that id really is: the origin for the prepended origin stop.
ActualCoords(id) ==
    IF id = OriginId /\ originPoint # NoOrigin THEN originPoint
    ELSE selectedParks[CHOOSE i \in 1..Len(selectedParks) : selectedParks[i].id = id].coords

ActualBearing(leg) == bearingBetween(ActualCoords(leg.fromId), ActualCoords(leg.toId))

\* Pairs of consecutive legs whose actual bearings differ by more than 120 degrees.
ReversingPairs ==
    {i \in 2..Len(currentLegs) :
        bearingDiff(ActualBearing(currentLegs[i - 1]), ActualBearing(currentLegs[i])) > 1200}

\* C22: a backtracking advisory is shown if and only if some pair of consecutive legs
\* has bearings, each taken from the leg's actual start point to its actual end
\* point (the origin included), that differ by more than 120 degrees, and the count
\* of the advisory is the number of such pairs.
C22_BacktrackFromActualBearings ==
    (phase = "detected" /\ Len(currentLegs) > 0) =>
        /\ (IssuesOfType("backtrack") # {}) <=> (ReversingPairs # {})
        /\ \A k \in IssuesOfType("backtrack") :
              violations[k].about = Cardinality(ReversingPairs)

(***************************************************************************)
(* ROUTE UPDATE  (event handlers, debounce timer, updateRoute)             *)
(*                                                                         *)
(* One action per task of the event loop.  An updateRoute() invocation     *)
(* runs from its start to its await of fetch() inside the timer task; it   *)
(* resumes either in the task that delivers the response or, when its      *)
(* controller was aborted, in the microtasks of the aborting task, which   *)
(* run before any other task (MicrotaskPending).                           *)
(***************************************************************************)

\* PARKS_DATA[id]: the parks lie on the degree grid of milesBetween.
ParkCoords(id) == <<id % 3, (id \div 3) % 2>>

ParkIds == 1..NumParks

EmptyLineString == <<>>

FinishedInvocation == [pc |-> "done", stops |-> <<>>, roundTripOn |-> FALSE, optimized |-> FALSE]

MicrotaskPending == \E i \in 1..Len(inv) : inv[i].pc \in {"aborted", "fallback"}

RouteInit ==
    /\ selectedParks = <<>>
    /\ originPoint = NoOrigin
    /\ optimizeToggle \in BOOLEAN
    /\ roundTripToggle = FALSE
    /\ tripRules = DefaultRules
    /\ currentLegs = <<>>
    /\ dayPlan = <<>>
    /\ droppedOptional = <<>>
    /\ violations = <<>>
    /\ orderResult = NoResult
    /\ phase = "app"
    /\ RouteIdle
    /\ BuildIdle

\* debounceRouteUpdate(): clearTimeout + setTimeout
debounceRouteUpdate == routeUpdateTimer' = TRUE

\* handleParkCardAddToTrip: remove the park when selected, push it otherwise
handleParkCardAddToTrip(id) ==
    /\ ~MicrotaskPending
    /\ selectedParks' =
          IF \E i \in 1..Len(selectedParks) : selectedParks[i].id = id
          THEN SelectSeq(selectedParks, LAMBDA p : p.id # id)
          ELSE Append(selectedParks, [id |-> id, coords |-> ParkCoords(id),
                                      locked |-> FALSE, mustSee |-> TRUE])
    /\ debounceRouteUpdate
    /\ UNCHANGED <<originPoint, optimizeToggle, roundTripToggle, tripRules, currentLegs,
                   dayPlan, droppedOptional, violations, orderResult, phase, routeGeometry,
                   routeRequestController, isRouting, inv>>
    /\ UNCHANGED buildVars

\* "reverse-route" click handler
reverseRoute ==
    /\ ~MicrotaskPending
    /\ Len(selectedParks) >= 2
    /\ selectedParks' = [i \in 1..Len(selectedParks) |->
                            selectedParks[Len(selectedParks) + 1 - i]]
    /\ debounceRouteUpdate
    /\ UNCHANGED <<originPoint, optimizeToggle, roundTripToggle, tripRules, currentLegs,
                   dayPlan, droppedOptional, violations, orderResult, phase, routeGeometry,
                   routeRequestController, isRouting, inv>>
    /\ UNCHANGED buildVars

\* roundTripToggle "change" handler (the checkbox has flipped)
roundTripChange ==
    /\ ~MicrotaskPending
    /\ roundTripToggle' = ~roundTripToggle
    /\ debounceRouteUpdate
    /\ UNCHANGED <<selectedParks, originPoint, optimizeToggle, tripRules, currentLegs,
                   dayPlan, droppedOptional, violations, orderResult, phase, routeGeometry,
                   routeRequestController, isRouting, inv>>
    /\ UNCHANGED buildVars

\* autoScheduleBtn click handler
autoSchedule ==
    /\ ~MicrotaskPending
    /\ LET res == generateDayPlan(currentLegs, selectedParks, tripRules) IN
         /\ dayPlan' = res.plan
         /\ droppedOptional' = res.droppedOptional
    /\ UNCHANGED <<selectedParks, originPoint, optimizeToggle, roundTripToggle, tripRules,
                   currentLegs, violations, orderResult, phase, routeGeometry,
                   routeRequestController, isRouting, routeUpdateTimer, inv>>
    /\ UNCHANGED buildVars

FetchOutcomes == {"ok", "not-ok", "error", "malformed"}

NoGeometry == [road |-> FALSE, through |-> <<>>]

\* const stopsForRoute = roundTripOn ? [...orderedStops, orderedStops[0]] : [...orderedStops];
stopsForRouteOf(stops, roundTripOn) ==
    IF roundTripOn /\ Len(stops) > 0 THEN Append(stops, stops[1]) ELSE stops

routeGeometryOfNullOnFailure(stops, roundTripOn, outcome) ==
    IF Len(stops) < 2 \/ outcome # "ok" THEN NoGeometry
    ELSE [road |-> TRUE,
          through |-> [k \in 1..Len(stopsForRouteOf(stops, roundTripOn)) |->
                          stopsForRouteOf(stops, roundTripOn)[k].id]]

\* fetchDirectionsGeometry: no geometry below two stops; the Directions geometry on
\* a good response; otherwise (too many waypoints, non-OK status, thrown error,
\* malformed geometry) the straight line through the stops (fallbackGeom).
routeGeometryOf(stops, roundTripOn, outcome) ==
    IF Len(stops) < 2 THEN NoGeometry
    ELSE [road |-> (outcome = "ok"),
          through |-> [k \in 1..Len(stopsForRouteOf(stops, roundTripOn)) |->
                          stopsForRouteOf(stops, roundTripOn)[k].id]]

\* Timer task of debounceRouteUpdate: updateRoute() from its first line to the point
\* where it is suspended in fetchDirectionsGeometry's await fetch(...), or, beyond
\* MaxWaypoints, in the await of fetchDirectionsGeometry itself.  Aborting the
\* previous controller rejects the fetch a still-suspended invocation awaits.
updateRouteStart ==
    /\ routeUpdateTimer
    /\ ~MicrotaskPending
    /\ Len(inv) < MaxInvocations
    /\ routeUpdateTimer' = FALSE
    /\ IF Len(selectedParks) < (IF originPoint # NoOrigin THEN 1 ELSE 2)
       THEN /\ currentLegs' = <<>>
            /\ dayPlan' = <<>>
            /\ violations' = <<>>
            /\ routeGeometry' = EmptyLineString
            /\ inv' = Append(inv, FinishedInvocation)
            /\ UNCHANGED <<selectedParks, routeRequestController, isRouting>>
       ELSE LET res   == computeStopOrder(selectedParks, originPoint, optimizeToggle,
                                          tripRules.noBacktracking)
                stops == stopsForRouting(res.orderedStops, originPoint)
            IN  /\ routeRequestController' = Len(inv) + 1
                /\ isRouting' = TRUE
                /\ selectedParks' = res.orderedStops
                /\ inv' = Append([j \in 1..Len(inv) |->
                                     IF inv[j].pc = "fetch"
                                     THEN [inv[j] EXCEPT !.pc = "aborted"] ELSE inv[j]],
                                  [pc |-> IF Len(stopsForRouteOf(stops, roundTripToggle))
                                                > MaxWaypoints
                                             THEN "fallback" ELSE "fetch",
                                   stops |-> stops,
                                   roundTripOn |-> roundTripToggle,
                                   optimized |-> res.optimized])
                /\ UNCHANGED <<currentLegs, dayPlan, violations, routeGeometry>>
    /\ UNCHANGED <<originPoint, optimizeToggle, roundTripToggle, tripRules,
                   droppedOptional, orderResult, phase>>
    /\ UNCHANGED buildVars

\* updateRoute() from the return of fetchDirectionsGeometry to its finally block.
updateRouteResume(i, outcome) ==
    LET result == routeGeometryOf(inv[i].stops, inv[i].roundTripOn, outcome)
        legs   == buildLegs(inv[i].stops, inv[i].roundTripOn, tripRules.speedMph)
    IN
    /\ IF result = NoGeometry
       THEN UNCHANGED <<routeGeometry, currentLegs, dayPlan, droppedOptional, violations>>
       ELSE /\ routeGeometry' = result
            /\ currentLegs' = legs
            /\ violations' = computeViolations(legs, selectedParks, tripRules,
                                               optimizeToggle, roundTripToggle)
            /\ IF Len(dayPlan) > 0
               THEN LET res == generateDayPlan(legs, selectedParks, tripRules) IN
                    /\ dayPlan' = res.plan
                    /\ droppedOptional' = res.droppedOptional
               ELSE UNCHANGED <<dayPlan, droppedOptional>>
    /\ isRouting' = FALSE
    /\ inv' = [inv EXCEPT ![i] = FinishedInvocation]
    /\ UNCHANGED <<selectedParks, originPoint, optimizeToggle, roundTripToggle, tripRules,
                   orderResult, phase, routeRequestController, routeUpdateTimer>>
    /\ UNCHANGED buildVars

\* The response of the Directions request of invocation i arrives (or the request fails).
fetchSettles(i) ==
    /\ ~MicrotaskPending
    /\ inv[i].pc = "fetch"
    /\ \E outcome \in FetchOutcomes : updateRouteResume(i, outcome)

\* The fetch of invocation i rejects with AbortError because a newer invocation aborted
\* its controller; fetchDirectionsGeometry catches it and returns fallbackGeom.
abortedFetchRejects(i) ==
    /\ inv[i].pc = "aborted"
    /\ updateRouteResume(i, "error")

\* Invocation i had more than MaxWaypoints waypoints: no request was issued and it
\* resumes with fallbackGeom in the microtasks of its own timer task, after the
\* continuation of an invocation it aborted.
noFetchResume(i) ==
    /\ inv[i].pc = "fallback"
    /\ \A j \in 1..Len(inv) : inv[j].pc # "aborted"
    /\ updateRouteResume(i, "too-many")

RouteNext ==
    \/ \E id \in ParkIds : handleParkCardAddToTrip(id)
    \/ reverseRoute
    \/ roundTripChange
    \/ autoSchedule
    \/ updateRouteStart
    \/ \E i \in 1..Len(inv) : fetchSettles(i)
    \/ \E i \in 1..Len(inv) : abortedFetchRejects(i)

RouteSpec == RouteInit /\ [][RouteNext]_vars

(***************************************************************************)
(* Specification of route updates for trips built by the wizard, whose     *)
(* size reaches the waypoint limit of the Directions request               *)
(***************************************************************************)

\* Numbers of parks ticked in the wizard: around the stop-count guards and around
\* the waypoint limit.
WizardSizes == {1, 3, MaxWaypoints - 1, MaxWaypoints, MaxWaypoints + 1}

\* wizardBuildTrip with parks 1..n ticked
wizardBuildTrip(n) ==
    /\ ~MicrotaskPending
    /\ n >= 1
    /\ selectedParks' = [id \in 1..n |-> [id |-> id, coords |-> ParkCoords(id),
                                            locked |-> FALSE, mustSee |-> TRUE]]
    /\ currentLegs' = <<>>
    /\ dayPlan' = <<>>
    /\ tripRules' = [tripRules EXCEPT !.maxDriveHoursPerDay = Min(8, Max(4, 6))]
    /\ debounceRouteUpdate
    /\ optimizeToggle' = IF n >= 3 THEN TRUE ELSE optimizeToggle
    /\ UNCHANGED <<originPoint, roundTripToggle, droppedOptional, violations, orderResult,
                   phase, routeGeometry, routeRequestController, isRouting, inv>>
    /\ UNCHANGED buildVars

WizardInit ==
    /\ selectedParks = <<>>
    /\ originPoint \in {NoOrigin} \cup PlanOrigins
    /\ optimizeToggle = FALSE
    /\ roundTripToggle = FALSE
    /\ tripRules = DefaultRules
    /\ currentLegs = <<>>
    /\ dayPlan = <<>>
    /\ droppedOptional = <<>>
    /\ violations = <<>>
    /\ orderResult = NoResult
    /\ phase = "app"
    /\ RouteIdle
    /\ BuildIdle

WizardNext ==
    \/ \E n \in WizardSizes : wizardBuildTrip(n)
    \/ roundTripChange
    \/ updateRouteStart
    \/ \E i \in 1..Len(inv) : fetchSettles(i)
    \/ \E i \in 1..Len(inv) : abortedFetchRejects(i)
    \/ \E i \in 1..Len(inv) : noFetchResume(i)

WizardSpec == WizardInit /\ [][WizardNext]_vars

\* legs is the complete leg list of the stops: one leg per consecutive pair (and the
\* closing leg of a round trip), with miles from milesBetween and hours from speedMph.
FullLegList(stops, roundTripOn, legs, speedMph) ==
    LET n == Len(stops) IN
    /\ n >= 2
    /\ Len(legs) = (IF roundTripOn THEN n ELSE n - 1)
    /\ \A k \in 1..Len(legs) :
          LET from == stops[k]
              to   == IF k < n THEN stops[k + 1] ELSE stops[1]
          IN  /\ legs[k].fromId = from.id
              /\ legs[k].toId = to.id
              /\ legs[k].miles = milesBetween(from.coords, to.coords)
              /\ legs[k].mins = (legs[k].miles * 60) \div (100 * Max(1, speedMph))

\* C11: whatever the outcome of the route fetch (good response, non-OK status, thrown
\* error, malformed geometry, or no request beyond MaxWaypoints), the invocation that
\* was not superseded leaves in currentLegs the full leg list of its stops, with miles
\* and hours from the distance estimator and speedMph.
C11_LegsBuiltWhateverTheFetch ==
    [][\A i \in 1..Len(inv) :
          (inv[i].pc \in {"fetch", "fallback"} /\ inv'[i].pc = "done")
              => FullLegList(inv[i].stops, inv[i].roundTripOn, currentLegs',
                             tripRules.speedMph)]_vars

C11_Witness ==
    /\ Len(currentLegs) >= MaxWaypoints
    /\ routeGeometry # EmptyLineString
    /\ ~routeGeometry.road
    /\ Len(routeGeometry.through) > MaxWaypoints
    /\ \A i \in 1..Len(inv) : inv[i].pc = "done"

(***************************************************************************)
(* DRIVE MATRIX BUILD  (scripts/build_drive_matrix.mjs)                    *)
(*                                                                         *)
(* A park is [parkCode, rev]: rev stands for the rest of its record in     *)
(* parks.json (name, lon, lat, ...).  A matrix maps a pair key             *)
(* <<fromCode, toCode>> to the result of its Directions call, which is     *)
(* determined by the two park records: <<from.rev, to.rev>>.               *)
(***************************************************************************)

\* sha256(parks): equal exactly for equal JSON.stringify(parks), so the list itself
sha256(parks) == parks

pairKey(a, b) == <<a.parkCode, b.parkCode>>

\* The { miles, hours } of a successful fetchLeg(from, to)
legResult(from, to) == <<from.rev, to.rev>>

\* "2. Load existing matrix": the file's matrix when the parks hash matches, the
\* empty matrix when the park list changed or there is no file
existingMatrix(file, parksHash) ==
    IF file.exists /\ file.parksHash = parksHash THEN file.matrix ELSE EmptyMatrix

\* "3. Determine pairs to compute": pairs i < j, in order, with neither key cached
RECURSIVE pairsFrom(_, _, _, _)
pairsFrom(parks, existing, i, j) ==
    IF i > Len(parks) THEN <<>>
    ELSE IF j > Len(parks) THEN pairsFrom(parks, existing, i + 1, i + 2)
    ELSE (IF /\ pairKey(parks[i], parks[j]) \notin DOMAIN existing
             /\ pairKey(parks[j], parks[i]) \notin DOMAIN existing
          THEN <<(<<parks[i], parks[j]>>)>> ELSE <<>>)
         \o pairsFrom(parks, existing, i, j + 1)

\* Park lists parks.json can hold: the parks of codes 1..n, each in one of its versions.
ParksLists ==
    UNION {{[i \in 1..n |-> [parkCode |-> i, rev |-> r[i]]] : r \in [1..n -> 1..MaxRevs]} :
              n \in 0..MaxParkCodes}

\* build_nps_data rewrites parks.json (parks added, removed or updated)
parksJsonRebuilt(parks) ==
    /\ build.pc = "idle"
    /\ parks # parksJson
    /\ parksJson' = parks
    /\ UNCHANGED <<driveMatrixJson, build>>
    /\ UNCHANGED appVars

\* main() from its first line to the first await fetchLeg(), or to its return when
\* there is nothing to compute
mainStart ==
    /\ build.pc = "idle"
    /\ build.runs < MaxBuilds
    /\ LET parksHash == sha256(parksJson)
           existing  == existingMatrix(driveMatrixJson, parksHash)
           allPairs  == pairsFrom(parksJson, existing, 1, 2)
       IN  IF Len(allPairs) = 0
           THEN /\ driveMatrixJson' = [exists |-> TRUE, parksHash |-> parksHash,
                                       matrix |-> existing]
                /\ build' = IdleBuild(build.runs + 1)
           ELSE /\ build' = [pc |-> "fetching", parksHash |-> parksHash,
                             allPairs |-> allPairs, matrix |-> existing, next |-> 1,
                             runs |-> build.runs]
                /\ UNCHANGED driveMatrixJson
    /\ UNCHANGED parksJson
    /\ UNCHANGED appVars

BuildOutcomes == {"ok", "not-ok", "no-route", "error"}

\* One iteration of "5. Fetch pairs with rate limiting": the Directions call of the
\* next pair settles
fetchLegSettles(outcome) ==
    /\ build.pc = "fetching"
    /\ build.next <= Len(build.allPairs)
    /\ LET from == build.allPairs[build.next][1]
           to   == build.allPairs[build.next][2]
       IN  build' = [build EXCEPT
                        !.matrix = IF outcome = "ok"
                                   THEN (pairKey(from, to) :> legResult(from, to)) @@ @
                                   ELSE @,
                        !.next = @ + 1]
    /\ UNCHANGED <<parksJson, driveMatrixJson>>
    /\ UNCHANGED appVars

\* "6. Write output"
writeOutput ==
    /\ build.pc = "fetching"
    /\ build.next > Len(build.allPairs)
    /\ driveMatrixJson' = [exists |-> TRUE, parksHash |-> build.parksHash,
                           matrix |-> build.matrix]
    /\ build' = IdleBuild(build.runs + 1)
    /\ UNCHANGED parksJson
    /\ UNCHANGED appVars

BuildInit ==
    /\ selectedParks = <<>>
    /\ originPoint = NoOrigin
    /\ optimizeToggle = FALSE
    /\ roundTripToggle = FALSE
    /\ tripRules = DefaultRules
    /\ currentLegs = <<>>
    /\ dayPlan = <<>>
    /\ droppedOptional = <<>>
    /\ violations = <<>>
    /\ orderResult = NoResult
    /\ phase = "build"
    /\ RouteIdle
    /\ BuildIdle

BuildNext ==
    \/ \E parks \in ParksLists : parksJsonRebuilt(parks)
    \/ mainStart
    \/ \E outcome \in BuildOutcomes : fetchLegSettles(outcome)
    \/ writeOutput

BuildSpec == BuildInit /\ [][BuildNext]_vars

\* Both parks are as they were at the build that wrote drive_matrix.json, and that
\* file holds an entry for the pair in one direction or the other.
CachedUnchanged(a, b) ==
    /\ driveMatrixJson.exists
    /\ \E i \in 1..Len(driveMatrixJson.parksHash) : driveMatrixJson.parksHash[i] = a
    /\ \E i \in 1..Len(driveMatrixJson.parksHash) : driveMatrixJson.parksHash[i] = b
    /\ \/ pairKey(a, b) \in DOMAIN driveMatrixJson.matrix
       \/ pairKey(b, a) \in DOMAIN driveMatrixJson.matrix

\* C14: a build issues a Directions call only for a pair that is new or updated: a
\* pair of unchanged parks with an entry in the existing drive_matrix.json (under
\* either key) is not in the list of pairs to compute, and its entry is in the file
\* the build writes, also when other parks of parks.json were added or changed.
C14_CachedPairsSkipped ==
    [][/\ (build.pc = "idle" /\ build'.pc = "fetching")
            => \A k \in 1..Len(build'.allPairs) :
                  ~CachedUnchanged(build'.allPairs[k][1], build'.allPairs[k][2])
       /\ driveMatrixJson' # driveMatrixJson
            => \A i, j \in 1..Len(parksJson) :
                  (i < j /\ CachedUnchanged(parksJson[i], parksJson[j]))
                     => \E key \in {pairKey(parksJson[i], parksJson[j]),
                                    pairKey(parksJson[j], parksJson[i])} :
                           /\ key \in DOMAIN driveMatrixJson.matrix
                           /\ key \in DOMAIN driveMatrixJson'.matrix
                           /\ driveMatrixJson'.matrix[key] = driveMatrixJson.matrix[key]]_vars

(***************************************************************************)
(* Route updates under fair scheduling: an armed debounce timer fires, an  *)
(* issued fetch settles, a rejected fetch resumes its invocation.          *)
(***************************************************************************)

\* A handler changes the stops or the round-trip flag and arms the debounce timer.
UserChange ==
    \/ \E id \in ParkIds : handleParkCardAddToTrip(id)
    \/ reverseRoute
    \/ roundTripChange

\* The user acts only while an updateRoute invocation is left to serve the change.
RouteLiveNext ==
    \/ (Len(inv) < MaxInvocations /\ UserChange)
    \/ autoSchedule
    \/ updateRouteStart
    \/ \E i \in 1..Len(inv) : fetchSettles(i)
    \/ \E i \in 1..Len(inv) : abortedFetchRejects(i)

RouteLiveSpec ==
    /\ RouteInit
    /\ [][RouteLiveNext]_vars
    /\ WF_vars(updateRouteStart)
    /\ WF_vars(\E i \in 1..Len(inv) : fetchSettles(i))
    /\ WF_vars(\E i \in 1..Len(inv) : abortedFetchRejects(i))

\* currentLegs is the leg list of the current stops, origin and round-trip flag.
LegsCurrent ==
    currentLegs = buildLegs(stopsForRouting(selectedParks, originPoint),
                            roundTripToggle, tripRules.speedMph)

\* C26: once stop and toggle changes stop occurring (and every issued fetch settles
\* or is aborted), currentLegs eventually is the leg list built from the current
\* selectedParks order, origin and round-trip flag, and stays so: no stale invocation
\* writes it last.
C26_LegsEventuallyCurrent ==
    (<>[][~UserChange]_vars) => <>[]LegsCurrent

(***************************************************************************)
(* Specification of a planning session: stops, rules and must-see flags    *)
(* edited while a day plan is stored and route updates run                 *)
(***************************************************************************)

clearRouteKeepsDayPlan ==
    /\ ~MicrotaskPending
    /\ selectedParks' = <<>>
    /\ currentLegs' = <<>>
    /\ violations' = <<>>
    /\ routeGeometry' = EmptyLineString
    /\ UNCHANGED <<originPoint, optimizeToggle, roundTripToggle, tripRules, dayPlan,
                   droppedOptional, orderResult, phase, routeRequestController, isRouting,
                   routeUpdateTimer, inv>>
    /\ UNCHANGED buildVars

\* clearRoute(), confirmed by the user
clearRoute ==
    /\ ~MicrotaskPending
    /\ selectedParks' = <<>>
    /\ currentLegs' = <<>>
    /\ dayPlan' = <<>>
    /\ violations' = <<>>
    /\ routeGeometry' = EmptyLineString
    /\ UNCHANGED <<originPoint, optimizeToggle, roundTripToggle, tripRules,
                   droppedOptional, orderResult, phase, routeRequestController, isRouting,
                   routeUpdateTimer, inv>>
    /\ UNCHANGED buildVars

\* ".stop-row__must-see" change handler of the stop at index idx
mustSeeChange(idx) ==
    /\ ~MicrotaskPending
    /\ idx \in 1..Len(selectedParks)
    /\ selectedParks' = [selectedParks EXCEPT ![idx].mustSee = ~@]
    /\ UNCHANGED <<originPoint, optimizeToggle, roundTripToggle, tripRules, currentLegs,
                   dayPlan, droppedOptional, violations, orderResult, phase>>
    /\ UNCHANGED routeVars
    /\ UNCHANGED buildVars

\* Values typed into the max-hours field and picked in the sleep-time field.
MaxHoursValues == {1, 6}
SleepTimeValues == {600}

\* maxHoursEl "change" handler
maxHoursChange(h) ==
    /\ ~MicrotaskPending
    /\ tripRules' = [tripRules EXCEPT !.maxDriveHoursPerDay = h]
    /\ violations' = computeViolations(currentLegs, selectedParks, tripRules',
                                       optimizeToggle, roundTripToggle)
    /\ UNCHANGED <<selectedParks, originPoint, optimizeToggle, roundTripToggle,
                   currentLegs, dayPlan, droppedOptional, orderResult, phase>>
    /\ UNCHANGED routeVars
    /\ UNCHANGED buildVars

\* sleepTimeEl "change" handler
sleepTimeChange(t) ==
    /\ ~MicrotaskPending
    /\ tripRules' = [tripRules EXCEPT !.sleepMins = t]
    /\ violations' = computeViolations(currentLegs, selectedParks, tripRules',
                                       optimizeToggle, roundTripToggle)
    /\ IF Len(dayPlan) > 0
       THEN LET res == generateDayPlan(currentLegs, selectedParks, tripRules') IN
            /\ dayPlan' = res.plan
            /\ droppedOptional' = res.droppedOptional
       ELSE UNCHANGED <<dayPlan, droppedOptional>>
    /\ UNCHANGED <<selectedParks, originPoint, optimizeToggle, roundTripToggle,
                   currentLegs, orderResult, phase>>
    /\ UNCHANGED routeVars
    /\ UNCHANGED buildVars

SessionInit ==
    /\ selectedParks = <<>>
    /\ originPoint = NoOrigin
    /\ optimizeToggle = FALSE
    /\ roundTripToggle = FALSE
    /\ tripRules = DefaultRules
    /\ currentLegs = <<>>
    /\ dayPlan = <<>>
    /\ droppedOptional = <<>>
    /\ violations = <<>>
    /\ orderResult = NoResult
    /\ phase = "app"
    /\ RouteIdle
    /\ BuildIdle

\* The handlers a user of the planner triggers.
SessionChange ==
    \/ \E id \in ParkIds : handleParkCardAddToTrip(id)
    \/ reverseRoute
    \/ roundTripChange
    \/ clearRoute
    \/ \E n \in ParkIds : wizardBuildTrip(n)
    \/ \E idx \in ParkIds : mustSeeChange(idx)
    \/ \E h \in MaxHoursValues : maxHoursChange(h)
    \/ \E t \in SleepTimeValues : sleepTimeChange(t)
    \/ autoSchedule

\* Route updates run during a session.
MaxUpdates == 2

\* The user acts while route updates remain to be run.
SessionNext ==
    \/ (Len(inv) < MaxUpdates /\ SessionChange)
    \/ (Len(inv) < MaxUpdates /\ updateRouteStart)
    \/ \E i \in 1..Len(inv) : fetchSettles(i)
    \/ \E i \in 1..Len(inv) : abortedFetchRejects(i)

SessionSpec == SessionInit /\ [][SessionNext]_vars

\* C28: a stored day plan is the plan the packer produces from the current legs,
\* the current rules and the current must-see flags: no rule change and no must-see
\* toggle leaves a stale plan in place.
C28_StoredPlanIsCurrent ==
    Len(dayPlan) > 0 =>
        dayPlan = generateDayPlan(currentLegs, selectedParks, tripRules).plan

\* C29: after every handler and every updateRoute continuation, every leg index
\* stored in a day of dayPlan is an index of currentLegs.
C29_PlanIndicesValid ==
    \A d \in 1..Len(dayPlan) : \A k \in 1..Len(dayPlan[d].legs) :
        dayPlan[d].legs[k] \in 1..Len(currentLegs)

\* A plan regenerated by a route update that followed a superseded one, under a
\* changed rule.
C29_Witness ==
    /\ Len(dayPlan) = 2
    /\ Len(currentLegs) = 2
    /\ tripRules.maxDriveHoursPerDay = 1
    /\ Len(inv) = MaxUpdates
    /\ \A i \in 1..Len(inv) : inv[i].pc = "done"
    /\ LegsCurrent
\* C27: the is-routing indicator is on whenever some updateRoute invocation has
\* passed its stop-count guard and has not finished; a superseded invocation that
\* finishes does not turn it off while the newer invocation is in flight.
C27_RoutingIndicatorOn ==
    (\E i \in 1..Len(inv) : inv[i].pc # "done") => isRouting

\* C3: an updateRoute invocation that was superseded while awaiting its route fetch
\* never writes the leg list, the route geometry or the day plan.
C3_SupersededNeverWrites ==
    [][\A i \in 1..Len(inv) :
          (inv[i].pc = "aborted" /\ inv'[i].pc = "done")
              => UNCHANGED <<currentLegs, routeGeometry, dayPlan>>]_vars

====
